---------------------------- MODULE Spec2Model ----------------------------
(***************************************************************************)
(* A model of the GlideComputer orchestrator of XCSoar-JET                 *)
(* (src/src/Computer/GlideComputer.cpp): the per-sample tick ProcessGPS,   *)
(* the idle pass ProcessIdle and the flight reset ResetFlight, with the    *)
(* derived state of src/src/NMEA/Derived.hpp they write.                   *)
(*                                                                         *)
(* The sub-computers (AirDataComputer, TaskComputer, StatsComputer, ...)   *)
(* are opaque collaborators: what they write into the derived state in a   *)
(* tick is an input of the tick (the record "in").  The small value types  *)
(* the orchestrator uses but which are not part of the source at hand      *)
(* (PeriodClock, DeltaTime, Validity, BrokenDateTime, the blackboard's     *)
(* SaveFinish/RestoreFinish) are written from the specification.           *)
(*                                                                         *)
(* Times: the steady clock ("now"), the sample time ("time") and the       *)
(* sample clock ("clock") are integers counting milliseconds.  Altitudes   *)
(* and positions are integers; floating point rounding is not modelled.    *)
(***************************************************************************)
EXTENDS Integers, Sequences, FiniteSets, TLC

VARIABLES
  gc,                     \* the GlideComputer instance: members and blackboard
  other,                  \* a second GlideComputer instance of the process
  last_team_code_update,  \* the file-scope static PeriodClock
  now,                    \* the steady clock read by PeriodClock
  waypoints,              \* the waypoint store: the ids it holds
  hist                    \* what the last call did, and running counts

vars == <<gc, other, last_team_code_update, now, waypoints, hist>>

-----------------------------------------------------------------------------
(* Bounds of the model *)

\* the steady clock stops advancing here (ms): in the specification of the
\* team code, and of the idle clock
MaxNowTeam == 31000
MaxNowIdle == 3000
\* the sample clock (the stamp of Validity) stops advancing here
MaxClock == 3
\* entries the trace history holds before it overwrites the oldest
TraceCapacity == 2

-----------------------------------------------------------------------------
(* Program constants *)

\* idle_clock.CheckUpdate(milliseconds(500))
IdleIntervalMs == 500
\* last_team_code_update.CheckUpdate(seconds(10))
TeamCodeIntervalMs == 10000
\* trace_history_time.Update(basic.time, milliseconds{500}, seconds{30})
TraceMinDeltaMs == 500
TraceMaxDeltaMs == 30000
\* team_code_ref_id(-1)
UnsetWaypointId == -1
\* ... * 60.0 * 60.0
SecondsPerHour == 3600
\* int fuel_burn_time_remain
IntMax == 2147483647
IntMin == -IntMax - 1

-----------------------------------------------------------------------------
(* Small helpers *)

Abs(x) == IF x < 0 THEN -x ELSE x

\* std::max(a, b): returns a unless a < b
StdMax(a, b) == IF a < b THEN b ELSE a

-----------------------------------------------------------------------------
(* PeriodClock: a stamp of the steady clock, or undefined *)

\* no stamp: the steady clock, the sample time and the sample clock never
\* go below zero
Undefined == -1

\* PeriodClock::Update(): remember the current steady time
PeriodClockUpdate(t) == t

\* PeriodClock::CheckUpdate(d): whether at least d has elapsed since the
\* last fire; a clock that never fired has elapsed.  The pair is
\* <<the answer, the clock afterwards>>.
PeriodClockCheckUpdate(clk, t, d) ==
  IF clk = Undefined \/ t >= clk + d
    THEN <<TRUE, t>>
    ELSE <<FALSE, clk>>

-----------------------------------------------------------------------------
(* DeltaTime: the time of the last sample recorded, or undefined *)

\* DeltaTime::Reset()
DeltaTimeReset == Undefined

\* DeltaTime::Update(current, min_delta, max_delta): the pair
\* <<delta, the clock afterwards>>.  The first sample only starts the clock
\* (0); a sample earlier than the last one restarts it and reports a time
\* warp (negative); a sample less than min_delta later is ignored (0);
\* otherwise the elapsed time.  What a gap above max_delta yields is not
\* fixed by the specification: `long` picks among the elapsed time, 0 and a
\* time warp.
DeltaTimeUpdate(last, current, min_delta, max_delta, long) ==
  IF last = Undefined THEN <<0, current>>
  ELSE IF current < last THEN <<-1, current>>
  ELSE IF current - last < min_delta THEN <<0, last>>
  ELSE IF current - last > max_delta
    THEN <<CASE long = "delta" -> current - last
             [] long = "skip" -> 0
             [] OTHER -> -1,
           current>>
  ELSE <<current - last, current>>

-----------------------------------------------------------------------------
(* Validity: the sample clock of the last update, or invalid *)

Invalid == -1

\* Validity::Clear()
ValidityClear == Invalid

\* Validity::Update(now)
ValidityUpdate(clock) == clock

-----------------------------------------------------------------------------
(* BrokenDateTime: a date (a day number from 1, or invalid) and an hour of *)
(* the day                                                                 *)

HoursPerDay == 24

\* BrokenDateTime::Invalid()
BrokenDateTimeInvalid == [date |-> Invalid, tod |-> Invalid]

\* BrokenDateTime::IsDatePlausible()
IsDatePlausible(dt) == dt.date # Invalid

\* BrokenDateTime + duration: the offset moves the whole date-time and may
\* change the date
DateTimePlus(dt, offset) ==
  LET total == dt.date * HoursPerDay + dt.tod + offset
  IN [date |-> total \div HoursPerDay, tod |-> total % HoursPerDay]

\* BrokenTime + duration: the time of day, wrapping at midnight
TimePlus(tod, offset) == (tod + offset) % HoursPerDay

-----------------------------------------------------------------------------
(* Fuel quantities.  plane.fuel_onboard is a whole number of tenths of a   *)
(* litre.  plane.fuel_consumption is a double that the guard compares with *)
(* the machine epsilon, so it is kept at two scales: m tenths of a litre   *)
(* per hour, or (tiny) m times the machine epsilon.                        *)

Tenths(m) == [m |-> m, tiny |-> FALSE]

Epsilons(m) == [m |-> m, tiny |-> TRUE]

\* plane.fuel_consumption < 0
IsNegative(c) == c.m < 0

\* fabs(plane.fuel_consumption) <= std::numeric_limits<double>::epsilon()
FabsWithinEpsilon(c) == IF c.tiny THEN Abs(c.m) <= 1 ELSE c.m = 0

\* whether fuel_onboard / fuel_consumption * 60.0 * 60.0 lies in the range
\* of int: with a consumption of a few epsilons only a quotient of zero does
FuelQuotientInIntRange(onboard, c) ==
  IF c.tiny THEN onboard = 0
  ELSE (onboard \div Abs(c.m)) < (IntMax \div SecondsPerHour)

\* the quotient as the conversion to int leaves it: truncated toward zero.
\* Only used for a positive consumption and a quotient in range.
FuelQuotientTruncated(onboard, c) ==
  IF c.tiny THEN 0
  ELSE (onboard \div c.m) * SecondsPerHour
       + ((onboard % c.m) * SecondsPerHour) \div c.m

-----------------------------------------------------------------------------
(* The derived state (DerivedInfo) and the GlideComputer instance *)

\* TeamCode::Clear(): no code
TeamCodeClear == [defined |-> FALSE, code |-> 0]

\* TeamCode::Update(bearing, distance): positions lie on a line, and the
\* vector from the reference is the signed distance
TeamCodeUpdate(v) == [defined |-> TRUE, code |-> v]

\* TeamCode::GetLocation(reference): the position the code stands for
TeamCodeGetLocation(tc, reference) == reference + tc.code

\* GeoPoint::DistanceBearing(other): the vector from this point to other
DistanceBearing(from, to) == to - from

\* the cleared DerivedInfo: the fields of it the orchestrator reads or
\* writes
ClearedDerived ==
  [ flying |-> FALSE,
    task_finished |-> FALSE,
    date_time_local |-> BrokenDateTimeInvalid,
    terrain_base_valid |-> FALSE,
    terrain_base |-> 0,
    terrain_altitude |-> 0,
    height_min_working |-> 0,
    height_max_working |-> 0,
    trace_history |-> << >>,
    fuel_burn_time_remain |-> 0,
    fuel_burn_time_remain_available |-> ValidityClear,
    teammate_available |-> FALSE,
    flarm_teammate_code_current |-> FALSE,
    own_teammate_code |-> TeamCodeClear,
    teammate_vector |-> 0,
    teammate_location |-> 0,
    flarm_teammate_code |-> TeamCodeClear ]

\* TerrainInfo::GetTerrainBaseFallback()
GetTerrainBaseFallback(calc) ==
  IF calc.terrain_base_valid THEN calc.terrain_base ELSE calc.terrain_altitude

\* the location the waypoint store holds for an id
WaypointLocation(id) == 10 * (id + 1)

\* one more entry in the record of the running call
Log(m, e) == [m EXCEPT !.log = Append(@, e)]

\* a sub-computer whose results the orchestrator does not read: only the
\* call is recorded
Opaque(m, name) == Log(m, name)

-----------------------------------------------------------------------------
(* GlideComputerBlackboard: the finish snapshot *)

\* SaveFinish(): keep a copy of the derived state
SaveFinish(m) == Log([m EXCEPT !.finish = m.calc], "SaveFinish")

\* RestoreFinish(): put the copy back, keeping the current flight state
RestoreFinish(m) ==
  Log([m EXCEPT !.calc = [m.finish EXCEPT !.flying = m.calc.flying]],
      "RestoreFinish")

-----------------------------------------------------------------------------
(* GlideComputer::ResetFlight *)

\* GlideComputerBlackboard::ResetFlight(full) and the sub-computers'
\* resets: a full reset puts every group of the derived state back to its
\* cleared state
BlackboardResetFlight(m, full) ==
  IF full THEN [m EXCEPT !.calc = ClearedDerived] ELSE m

\* air_data_computer.ResetFlight(calculated, full): the per-flight
\* statistics are not among the fields modelled; a full reset clears the
\* flight state
AirDataResetFlight(m, full) ==
  Log(IF full THEN [m EXCEPT !.calc.flying = FALSE] ELSE m,
      IF full THEN "air_data.ResetFlight(true)"
              ELSE "air_data.ResetFlight(false)")

\* a reset that keeps the state it clears as the finish snapshot
ResetFlightSavingFinish(m, full) ==
  LET m1 == BlackboardResetFlight(SaveFinish(m), full)
      m2 == AirDataResetFlight(m1, full)
  IN [m2 EXCEPT !.trace_history_time = DeltaTimeReset]

\* a reset that forgets the team reference and restarts the idle clock
ResetFlightClearingCache(m, full) ==
  LET m1 == BlackboardResetFlight(m, full)
      m2 == AirDataResetFlight(m1, full)
      m3 == Opaque(m2, "task_computer.ResetFlight")
      m4 == Opaque(m3, "stats_computer.ResetFlight")
      m5 == Opaque(m4, "log_computer.Reset")
      m6 == Opaque(m5, "retrospective.Reset")
      m7 == Opaque(m6, "cu_computer.Reset")
      m8 == Opaque(m7, "warning_computer.Reset")
  IN [m8 EXCEPT !.trace_history_time = DeltaTimeReset,
                !.team_code_ref_id = UnsetWaypointId,
                !.team_clock = Undefined]

\* lines 32-46
ResetFlight(m, full) ==
  LET m1 == BlackboardResetFlight(m, full)
      m2 == AirDataResetFlight(m1, full)
      m3 == Opaque(m2, "task_computer.ResetFlight")
      m4 == Opaque(m3, "stats_computer.ResetFlight")
      m5 == Opaque(m4, "log_computer.Reset")
      m6 == Opaque(m5, "retrospective.Reset")
      m7 == Opaque(m6, "cu_computer.Reset")
      m8 == Opaque(m7, "warning_computer.Reset")
  IN [m8 EXCEPT !.trace_history_time = DeltaTimeReset]

-----------------------------------------------------------------------------
(* The steps of GlideComputer::ProcessGPS.  Each takes the running state m *)
(* and the tick's input in, and gives the state after the step.            *)

\* the time of an unknown date left in UTC
LocalDateTimeUnshifted(m, in) ==
  Log([m EXCEPT !.calc.date_time_local =
         IF in.time_available
           THEN IF IsDatePlausible(in.date_time_utc)
                  THEN DateTimePlus(in.date_time_utc, in.utc_offset)
                  ELSE [date |-> Invalid, tod |-> in.date_time_utc.tod]
           ELSE BrokenDateTimeInvalid],
      "LocalDateTime")

\* lines 63-76: the local date-time
LocalDateTime(m, in) ==
  Log([m EXCEPT !.calc.date_time_local =
         IF in.time_available
           THEN IF IsDatePlausible(in.date_time_utc)
                  THEN DateTimePlus(in.date_time_utc, in.utc_offset)
                  ELSE [date |-> Invalid,
                        tod |-> TimePlus(in.date_time_utc.tod, in.utc_offset)]
           ELSE BrokenDateTimeInvalid],
      "LocalDateTime")

\* calculated.Expire(basic.clock): a stale validity is cleared.  The age at
\* which the fuel estimate goes stale is the input expire_fuel's to decide.
Expire(m, in) ==
  Log(IF in.expire_fuel
           /\ m.calc.fuel_burn_time_remain_available # Invalid
        THEN [m EXCEPT !.calc.fuel_burn_time_remain_available = ValidityClear]
        ELSE m,
      "Expire")

\* air_data_computer.ProcessBasic: among what it derives is the terrain
ProcessBasic(m, in) ==
  Log([m EXCEPT !.calc.terrain_base_valid = in.terrain_base_valid,
                !.calc.terrain_base = in.terrain_base,
                !.calc.terrain_altitude = in.terrain_altitude],
      "ProcessBasic")

\* task_computer.ProcessBasicTask: it owns ordered_task_stats
ProcessBasicTask(m, in) ==
  Log([m EXCEPT !.calc.task_finished = in.task_finished], "ProcessBasicTask")

\* the upper bound taken from the statistics alone
CalculateWorkingBandStatsMax(m, in) ==
  LET min0 == in.min_working_height
      min1 == IF m.calc.terrain_base_valid
                THEN StdMax(min0, GetTerrainBaseFallback(m.calc)
                                    + in.safety_height_arrival)
                ELSE min0
      max1 == in.max_working_height
      max2 == IF in.nav_altitude_available
                THEN StdMax(max1, in.nav_altitude)
                ELSE max1
  IN Log([m EXCEPT !.calc.height_min_working = min1,
                   !.calc.height_max_working = max2],
         "CalculateWorkingBand")

CalculateWorkingBand(m, in) ==
  LET min0 == in.min_working_height
      min1 == IF m.calc.terrain_base_valid
                THEN StdMax(min0, GetTerrainBaseFallback(m.calc)
                                    + in.safety_height_arrival)
                ELSE min0
      max1 == StdMax(min1, in.max_working_height)
      max2 == IF in.nav_altitude_available
                THEN StdMax(max1, in.nav_altitude)
                ELSE max1
  IN Log([m EXCEPT !.calc.height_min_working = min1,
                   !.calc.height_max_working = max2],
         "CalculateWorkingBand")

OnFinishTask(m) == SaveFinish(Log(m, "OnFinishTask"))

\* the hook run in every tick that ends with the task finished
FinishEdgeNoLast(m, last_finished) ==
  IF m.calc.task_finished THEN OnFinishTask(m) ELSE m

\* lines 96-97
FinishEdge(m, last_finished) ==
  IF ~last_finished /\ m.calc.task_finished THEN OnFinishTask(m) ELSE m

\* air_data_computer.FlightTimes: it owns the flying flag
FlightTimes(m, in) ==
  Log([m EXCEPT !.calc.flying = in.flying], "FlightTimes")

\* the whole computer reset at takeoff
OnTakeoffSessionReset(m) ==
  SaveFinish(ResetFlight(Log(m, "OnTakeoff"), TRUE))

\* a takeoff that takes no snapshot
OnTakeoffNoSnapshot(m) ==
  AirDataResetFlight(Log(m, "OnTakeoff"), FALSE)

\* lines 282-290
OnTakeoff(m) ==
  SaveFinish(AirDataResetFlight(Log(m, "OnTakeoff"), FALSE))

\* the snapshot restored at every landing
OnLandingAlwaysRestoring(m) == RestoreFinish(Log(m, "OnLanding"))

OnLanding(m) ==
  LET m1 == Log(m, "OnLanding")
  IN IF m1.calc.task_finished THEN RestoreFinish(m1) ELSE m1

\* the landing edge tested without the flag of the previous tick
TakeoffLandingNoEdge(m, last_flying) ==
  IF m.calc.flying /\ ~last_flying THEN OnTakeoff(m)
  ELSE IF ~m.calc.flying THEN OnLanding(m)
  ELSE m

TakeoffLanding(m, last_flying) ==
  IF m.calc.flying /\ ~last_flying THEN OnTakeoff(m)
  ELSE IF ~m.calc.flying /\ last_flying THEN OnLanding(m)
  ELSE m

\* the waypoint looked up in every call
DetermineTeamCodeRefLocationNoCache(m, in) ==
  LET wp == in.team_code_reference_waypoint
  IN IF wp < 0 THEN <<FALSE, m>>
     ELSE IF wp \notin waypoints
       THEN <<FALSE, Log([m EXCEPT !.team_code_ref_id = wp,
                                   !.team_code_ref_found = FALSE,
                                   !.team_code_ref_found_assigned = TRUE],
                         "waypoints.LookupId")>>
       ELSE <<TRUE, Log([m EXCEPT !.team_code_ref_id = wp,
                                  !.team_code_ref_location =
                                     WaypointLocation(wp),
                                  !.team_code_ref_found = TRUE,
                                  !.team_code_ref_found_assigned = TRUE],
                        "waypoints.LookupId")>>

\* lines 180-198.  The pair is <<whether the reference location is known,
\* the state afterwards>>.  A read of team_code_ref_found before anything
\* was assigned to it yields the input uninitialised_bool.
DetermineTeamCodeRefLocation(m, in) ==
  LET wp == in.team_code_reference_waypoint
  IN IF wp < 0 THEN <<FALSE, m>>
     ELSE IF wp = m.team_code_ref_id
       THEN <<IF m.team_code_ref_found_assigned
                THEN m.team_code_ref_found ELSE in.uninitialised_bool,
              Log(m, IF m.team_code_ref_found_assigned
                       THEN "team_code_ref_found.read"
                       ELSE "team_code_ref_found.read_uninitialised")>>
     ELSE IF wp \notin waypoints
       THEN <<FALSE, Log([m EXCEPT !.team_code_ref_id = wp,
                                   !.team_code_ref_found = FALSE,
                                   !.team_code_ref_found_assigned = TRUE],
                         "waypoints.LookupId")>>
       ELSE <<TRUE, Log([m EXCEPT !.team_code_ref_id = wp,
                                  !.team_code_ref_location =
                                     WaypointLocation(wp),
                                  !.team_code_ref_found = TRUE,
                                  !.team_code_ref_found_assigned = TRUE],
                        "waypoints.LookupId")>>

\* the own code recomputed in every tick that resolves the reference
CalculateOwnTeamCodeUnthrottled(m, in) ==
  LET d == DetermineTeamCodeRefLocation(m, in)
      m1 == d[2]
      v == DistanceBearing(m1.team_code_ref_location, in.location)
  IN IF ~d[1] THEN m1
     ELSE Log([m1 EXCEPT !.calc.own_teammate_code = TeamCodeUpdate(v),
                         !.team_clock = in.now],
              "own_teammate_code.Update")

CalculateOwnTeamCode(m, in) ==
  LET d == DetermineTeamCodeRefLocation(m, in)
      m1 == d[2]
      c == PeriodClockCheckUpdate(m1.team_clock, in.now, TeamCodeIntervalMs)
      m2 == [m1 EXCEPT !.team_clock = c[2]]
      v == DistanceBearing(m2.team_code_ref_location, in.location)
  IN IF ~d[1] THEN m1
     ELSE IF ~c[1] THEN m2
     ELSE Log([m2 EXCEPT !.calc.own_teammate_code = TeamCodeUpdate(v)],
              "own_teammate_code.Update")

\* a lost contact making the teammate unavailable
ComputeFlarmTeamLostClears(m, in) ==
  LET found == {t \in in.traffic : t.id = in.team_flarm_id}
      traffic == CHOOSE t \in found : TRUE
  IN IF found = {} \/ ~traffic.location_available
       THEN [m EXCEPT !.calc.flarm_teammate_code_current = FALSE,
                      !.calc.teammate_available = FALSE,
                      !.calc.flarm_teammate_code = TeamCodeClear]
       ELSE [m EXCEPT
              !.calc.teammate_location = traffic.location,
              !.calc.teammate_vector =
                 DistanceBearing(in.location, traffic.location),
              !.calc.teammate_available = TRUE,
              !.calc.flarm_teammate_code =
                 TeamCodeUpdate(DistanceBearing(m.team_code_ref_location,
                                                traffic.location)),
              !.calc.flarm_teammate_code_current = TRUE]

\* lines 218-241; FindTraffic gives the contact with the id, if any
ComputeFlarmTeam(m, in) ==
  LET found == {t \in in.traffic : t.id = in.team_flarm_id}
      traffic == CHOOSE t \in found : TRUE
  IN IF found = {} \/ ~traffic.location_available
       THEN [m EXCEPT !.calc.flarm_teammate_code_current = FALSE]
       ELSE [m EXCEPT
              !.calc.teammate_location = traffic.location,
              !.calc.teammate_vector =
                 DistanceBearing(in.location, traffic.location),
              !.calc.teammate_available = TRUE,
              !.calc.flarm_teammate_code =
                 TeamCodeUpdate(DistanceBearing(m.team_code_ref_location,
                                                traffic.location)),
              !.calc.flarm_teammate_code_current = TRUE]

\* lines 243-253
ComputeTeamCode(m, in) ==
  LET loc == TeamCodeGetLocation(in.team_code, m.team_code_ref_location)
  IN [m EXCEPT !.calc.teammate_location = loc,
               !.calc.teammate_vector = DistanceBearing(in.location, loc),
               !.calc.teammate_available = TRUE]

\* the manual team code taking precedence over the traffic contact
CalculateTeammateBearingRangeCodeFirst(m, in) ==
  LET d == DetermineTeamCodeRefLocation(m, in)
      m1 == Log(d[2], "CalculateTeammateBearingRange")
  IN IF ~d[1] THEN m1
     ELSE IF in.team_code.defined
       THEN ComputeTeamCode(
              Log([m1 EXCEPT !.calc.flarm_teammate_code = TeamCodeClear],
                  "ComputeTeamCode"), in)
     ELSE IF in.team_flarm_id # Undefined
       THEN ComputeFlarmTeam(Log(m1, "ComputeFlarmTeam"), in)
     ELSE [m1 EXCEPT !.calc.teammate_available = FALSE,
                     !.calc.flarm_teammate_code = TeamCodeClear]

\* no teammate configured: the team fields left as they are
CalculateTeammateBearingRangeKeeping(m, in) ==
  LET d == DetermineTeamCodeRefLocation(m, in)
      m1 == Log(d[2], "CalculateTeammateBearingRange")
  IN IF ~d[1] THEN m1
     ELSE IF in.team_flarm_id # Undefined
       THEN ComputeFlarmTeam(Log(m1, "ComputeFlarmTeam"), in)
     ELSE IF in.team_code.defined
       THEN ComputeTeamCode(
              Log([m1 EXCEPT !.calc.flarm_teammate_code = TeamCodeClear],
                  "ComputeTeamCode"), in)
     ELSE m1

\* the teammate computed only in the ticks that recompute the own code
CalculateTeammateBearingRangeThrottled(m, in) ==
  LET d == DetermineTeamCodeRefLocation(m, in)
      m1 == Log(d[2], "CalculateTeammateBearingRange")
      updated == \E i \in DOMAIN m.log : m.log[i] = "own_teammate_code.Update"
  IN IF ~d[1] \/ ~updated THEN m1
     ELSE IF in.team_flarm_id # Undefined
       THEN ComputeFlarmTeam(Log(m1, "ComputeFlarmTeam"), in)
     ELSE IF in.team_code.defined
       THEN ComputeTeamCode(
              Log([m1 EXCEPT !.calc.flarm_teammate_code = TeamCodeClear],
                  "ComputeTeamCode"), in)
     ELSE [m1 EXCEPT !.calc.teammate_available = FALSE,
                     !.calc.flarm_teammate_code = TeamCodeClear]

\* lines 255-280
CalculateTeammateBearingRange(m, in) ==
  LET d == DetermineTeamCodeRefLocation(m, in)
      m1 == Log(d[2], "CalculateTeammateBearingRange")
  IN IF ~d[1] THEN m1
     ELSE IF in.team_flarm_id # Undefined
       THEN ComputeFlarmTeam(Log(m1, "ComputeFlarmTeam"), in)
     ELSE IF in.team_code.defined
       THEN ComputeTeamCode(
              Log([m1 EXCEPT !.calc.flarm_teammate_code = TeamCodeClear],
                  "ComputeTeamCode"), in)
     ELSE [m1 EXCEPT !.calc.teammate_available = FALSE,
                     !.calc.flarm_teammate_code = TeamCodeClear]

\* TraceHistory::append: the newest entry last; a full history drops its
\* oldest entry
TraceHistoryAppend(h, entry) ==
  IF Len(h) < TraceCapacity THEN Append(h, entry)
  ELSE Append(Tail(h), entry)

\* a time warp taken for elapsed time: dt != 0 appends
UpdateTraceHistoryNoWarp(m, in) ==
  LET u == DeltaTimeUpdate(m.trace_history_time, in.time,
                           TraceMinDeltaMs, TraceMaxDeltaMs, in.long_gap)
      m1 == [m EXCEPT !.trace_history_time = u[2]]
  IN IF ~in.time_available THEN m
     ELSE IF u[1] # 0
       THEN Log([m1 EXCEPT !.calc.trace_history =
                              TraceHistoryAppend(@, in.time)],
                "trace_history.append")
     ELSE m1

\* an ignored sample appended: dt >= 0 appends
UpdateTraceHistoryUnthrottled(m, in) ==
  LET u == DeltaTimeUpdate(m.trace_history_time, in.time,
                           TraceMinDeltaMs, TraceMaxDeltaMs, in.long_gap)
      m1 == [m EXCEPT !.trace_history_time = u[2]]
  IN IF ~in.time_available THEN m
     ELSE IF u[1] >= 0
       THEN Log([m1 EXCEPT !.calc.trace_history =
                              TraceHistoryAppend(@, in.time)],
                "trace_history.append")
     ELSE Log([m1 EXCEPT !.calc.trace_history = << >>],
              "trace_history.clear")

\* lines 122-131
UpdateTraceHistory(m, in) ==
  LET u == DeltaTimeUpdate(m.trace_history_time, in.time,
                           TraceMinDeltaMs, TraceMaxDeltaMs, in.long_gap)
      m1 == [m EXCEPT !.trace_history_time = u[2]]
  IN IF ~in.time_available THEN m
     ELSE IF u[1] > 0
       THEN Log([m1 EXCEPT !.calc.trace_history =
                              TraceHistoryAppend(@, in.time)],
                "trace_history.append")
     ELSE IF u[1] < 0
       THEN Log([m1 EXCEPT !.calc.trace_history = << >>],
                "trace_history.clear")
     ELSE m1

\* the guard without the test against epsilon: a consumption of zero is
\* divided by
CalculateFuelBurnTimeRemainNoEpsilon(m, in) ==
  LET c == in.fuel_consumption
  IN IF IsNegative(c) THEN m
     ELSE Log([m EXCEPT
                !.calc.fuel_burn_time_remain =
                   IF FabsWithinEpsilon(c)
                      \/ ~FuelQuotientInIntRange(in.fuel_onboard, c)
                     THEN in.ub_int
                     ELSE FuelQuotientTruncated(in.fuel_onboard, c),
                !.calc.fuel_burn_time_remain_available =
                   ValidityUpdate(in.clock)],
              "fuel_burn_time_remain.Update")

\* lines 143-154.  A quotient beyond the range of int has no defined
\* conversion: the input ub_int is what the build makes of it.
CalculateFuelBurnTimeRemain(m, in) ==
  LET c == in.fuel_consumption
  IN IF IsNegative(c) \/ FabsWithinEpsilon(c) THEN m
     ELSE Log([m EXCEPT
                !.calc.fuel_burn_time_remain =
                   IF FuelQuotientInIntRange(in.fuel_onboard, c)
                     THEN FuelQuotientTruncated(in.fuel_onboard, c)
                     ELSE in.ub_int,
                !.calc.fuel_burn_time_remain_available =
                   ValidityUpdate(in.clock)],
              "fuel_burn_time_remain.Update")

\* the idle clock checked but not restarted
IdleClockCheckOnly(m, in) ==
  LET c == PeriodClockCheckUpdate(m.idle_clock, in.now, IdleIntervalMs)
  IN [m EXCEPT !.ret = c[1]]

\* line 140: return idle_clock.CheckUpdate(milliseconds(500))
IdleClockCheckUpdate(m, in) ==
  LET c == PeriodClockCheckUpdate(m.idle_clock, in.now, IdleIntervalMs)
  IN [m EXCEPT !.idle_clock = c[2], !.ret = c[1]]

\* the stale fields expired after the primary sensor computation
ProcessGPSExpireLate(m, in) ==
  LET last_flying == m.calc.flying
      m1 == LocalDateTime(m, in)
      m2 == ProcessBasic(m1, in)
      m3 == Expire(m2, in)
      last_finished == m3.calc.task_finished
      m4 == ProcessBasicTask(m3, in)
      m5 == CalculateWorkingBand(m4, in)
      m6 == Opaque(m5, "ProcessMoreTask")
      m7 == FinishEdge(m6, last_finished)
      m8 == FlightTimes(m7, in)
      m9 == TakeoffLanding(m8, last_flying)
      m10 == Opaque(m9, "ProcessAutoTask")
      m11 == Opaque(m10, "ProcessVertical")
      m12 == Opaque(m11, "ProcessClimbEvents")
      m13 == Opaque(m12, "cu_computer.Compute")
      m14 == CalculateOwnTeamCode(Log(m13, "CalculateOwnTeamCode"), in)
      m15 == CalculateTeammateBearingRange(m14, in)
      m16 == UpdateTraceHistory(Log(m15, "UpdateTraceHistory"), in)
      m17 == Opaque(m16, "CalculateVarioScale")
      m18 == Opaque(m17, "condition_monitors.Update")
      m19 == CalculateFuelBurnTimeRemain(
               Log(m18, "CalculateFuelBurnTimeRemain"), in)
  IN IdleClockCheckUpdate(m19, in)

\* the finish hook run right after the basic task computation
ProcessGPSFinishHookEarly(m, in) ==
  LET last_flying == m.calc.flying
      m1 == LocalDateTime(m, in)
      m2 == Expire(m1, in)
      m3 == ProcessBasic(m2, in)
      last_finished == m3.calc.task_finished
      m4 == ProcessBasicTask(m3, in)
      m5 == FinishEdge(m4, last_finished)
      m6 == CalculateWorkingBand(m5, in)
      m7 == Opaque(m6, "ProcessMoreTask")
      m8 == FlightTimes(m7, in)
      m9 == TakeoffLanding(m8, last_flying)
      m10 == Opaque(m9, "ProcessAutoTask")
      m11 == Opaque(m10, "ProcessVertical")
      m12 == Opaque(m11, "ProcessClimbEvents")
      m13 == Opaque(m12, "cu_computer.Compute")
      m14 == CalculateOwnTeamCode(Log(m13, "CalculateOwnTeamCode"), in)
      m15 == CalculateTeammateBearingRange(m14, in)
      m16 == UpdateTraceHistory(Log(m15, "UpdateTraceHistory"), in)
      m17 == Opaque(m16, "CalculateVarioScale")
      m18 == Opaque(m17, "condition_monitors.Update")
      m19 == CalculateFuelBurnTimeRemain(
               Log(m18, "CalculateFuelBurnTimeRemain"), in)
  IN IdleClockCheckUpdate(m19, in)

\* the flight-phase edge evaluated as the last step of the tick
ProcessGPSEdgeLast(m, in) ==
  LET last_flying == m.calc.flying
      m1 == LocalDateTime(m, in)
      m2 == Expire(m1, in)
      m3 == ProcessBasic(m2, in)
      last_finished == m3.calc.task_finished
      m4 == ProcessBasicTask(m3, in)
      m5 == CalculateWorkingBand(m4, in)
      m6 == Opaque(m5, "ProcessMoreTask")
      m7 == FinishEdge(m6, last_finished)
      m8 == FlightTimes(m7, in)
      m9 == m8
      m10 == Opaque(m9, "ProcessAutoTask")
      m11 == Opaque(m10, "ProcessVertical")
      m12 == Opaque(m11, "ProcessClimbEvents")
      m13 == Opaque(m12, "cu_computer.Compute")
      m14 == CalculateOwnTeamCode(Log(m13, "CalculateOwnTeamCode"), in)
      m15 == CalculateTeammateBearingRange(m14, in)
      m16 == UpdateTraceHistory(Log(m15, "UpdateTraceHistory"), in)
      m17 == Opaque(m16, "CalculateVarioScale")
      m18 == Opaque(m17, "condition_monitors.Update")
      m19 == CalculateFuelBurnTimeRemain(
               Log(m18, "CalculateFuelBurnTimeRemain"), in)
  IN IdleClockCheckUpdate(TakeoffLanding(m19, last_flying), in)

\* the flight-phase edge evaluated before the finish edge
ProcessGPSFlightHookFirst(m, in) ==
  LET last_flying == m.calc.flying
      m1 == LocalDateTime(m, in)
      m2 == Expire(m1, in)
      m3 == ProcessBasic(m2, in)
      last_finished == m3.calc.task_finished
      m4 == ProcessBasicTask(m3, in)
      m5 == CalculateWorkingBand(m4, in)
      m6 == Opaque(m5, "ProcessMoreTask")
      m7 == FlightTimes(m6, in)
      m8 == TakeoffLanding(m7, last_flying)
      m9 == FinishEdge(m8, last_finished)
      m10 == Opaque(m9, "ProcessAutoTask")
      m11 == Opaque(m10, "ProcessVertical")
      m12 == Opaque(m11, "ProcessClimbEvents")
      m13 == Opaque(m12, "cu_computer.Compute")
      m14 == CalculateOwnTeamCode(Log(m13, "CalculateOwnTeamCode"), in)
      m15 == CalculateTeammateBearingRange(m14, in)
      m16 == UpdateTraceHistory(Log(m15, "UpdateTraceHistory"), in)
      m17 == Opaque(m16, "CalculateVarioScale")
      m18 == Opaque(m17, "condition_monitors.Update")
      m19 == CalculateFuelBurnTimeRemain(
               Log(m18, "CalculateFuelBurnTimeRemain"), in)
  IN IdleClockCheckUpdate(m19, in)

\* GlideComputer::ProcessGPS, lines 54-141
ProcessGPS(m, in) ==
  LET last_flying == m.calc.flying
      m1 == LocalDateTime(m, in)
      m2 == Expire(m1, in)
      m3 == ProcessBasic(m2, in)
      last_finished == m3.calc.task_finished
      m4 == ProcessBasicTask(m3, in)
      m5 == CalculateWorkingBand(m4, in)
      m6 == Opaque(m5, "ProcessMoreTask")
      m7 == FinishEdge(m6, last_finished)
      m8 == FlightTimes(m7, in)
      m9 == TakeoffLanding(m8, last_flying)
      m10 == Opaque(m9, "ProcessAutoTask")
      m11 == Opaque(m10, "ProcessVertical")
      m12 == Opaque(m11, "ProcessClimbEvents")
      m13 == Opaque(m12, "cu_computer.Compute")
      m14 == CalculateOwnTeamCode(Log(m13, "CalculateOwnTeamCode"), in)
      m15 == CalculateTeammateBearingRange(m14, in)
      m16 == UpdateTraceHistory(Log(m15, "UpdateTraceHistory"), in)
      m17 == Opaque(m16, "CalculateVarioScale")
      m18 == Opaque(m17, "condition_monitors.Update")
      m19 == CalculateFuelBurnTimeRemain(
               Log(m18, "CalculateFuelBurnTimeRemain"), in)
  IN IdleClockCheckUpdate(m19, in)

\* the retrospective track sampled whether or not there is a location
ProcessIdleAlwaysSampling(m, in) ==
  LET m1 == Opaque(m, "stats_computer.DoLogging")
      m2 == Opaque(m1, "log_computer.Run")
      m3 == Opaque(m2, "task_computer.ProcessIdle")
      m4 == Opaque(m3, "warning_computer.Update")
      m5 == Opaque(m4, "idle_condition_monitors.Update")
  IN Opaque(m5, "retrospective.UpdateSample")

\* GlideComputer::ProcessIdle, lines 156-178
ProcessIdle(m, in) ==
  LET m1 == Opaque(m, "stats_computer.DoLogging")
      m2 == Opaque(m1, "log_computer.Run")
      m3 == Opaque(m2, "task_computer.ProcessIdle")
      m4 == Opaque(m3, "warning_computer.Update")
      m5 == Opaque(m4, "idle_condition_monitors.Update")
  IN IF in.location_available
       THEN Opaque(m5, "retrospective.UpdateSample")
       ELSE m5

-----------------------------------------------------------------------------
(* The state after the constructor and Initialise() *)

\* the ids the waypoint store holds
InitialWaypoints == {0}

\* a sample without time, location or altitude, settings with nothing
\* configured, and collaborators that report nothing
DefaultIn ==
  [ now |-> 0,
    \* the sample (MoreData)
    time_available |-> FALSE,
    time |-> 0,
    clock |-> 0,
    date_time_utc |-> [date |-> Invalid, tod |-> 0],
    location_available |-> FALSE,
    location |-> 0,
    nav_altitude_available |-> FALSE,
    nav_altitude |-> 0,
    traffic |-> {},
    \* the settings (ComputerSettings)
    utc_offset |-> 0,
    fuel_consumption |-> Tenths(0),
    fuel_onboard |-> 0,
    team_code_reference_waypoint |-> UnsetWaypointId,
    team_flarm_id |-> Undefined,
    team_code |-> TeamCodeClear,
    safety_height_arrival |-> 0,
    \* what the collaborators derive in the tick
    flying |-> FALSE,
    task_finished |-> FALSE,
    min_working_height |-> 0,
    max_working_height |-> 0,
    terrain_base_valid |-> FALSE,
    terrain_base |-> 0,
    terrain_altitude |-> 0,
    expire_fuel |-> FALSE,
    long_gap |-> "delta",
    ub_int |-> 0,
    uninitialised_bool |-> FALSE ]

\* a constructor that starts with waypoint 0 as the cached reference id
InitCachedReference ==
  /\ now = 0
  /\ last_team_code_update = Undefined
  /\ waypoints = InitialWaypoints
  /\ gc = [ calc |-> ClearedDerived,
            finish |-> ClearedDerived,
            trace_history_time |-> DeltaTimeReset,
            idle_clock |-> PeriodClockUpdate(now),
            team_code_ref_id |-> 0,
            team_code_ref_found |-> FALSE,
            team_code_ref_found_assigned |-> FALSE,
            team_code_ref_location |-> 0 ]
  /\ other = gc
  /\ hist = [ op |-> "Initialise",
              board |-> DefaultIn,
              log |-> << >>,
              ret |-> FALSE,
              idle_ref |-> now,
              edge |-> <<FALSE, FALSE>>,
              finish_edge |-> <<FALSE, FALSE>>,
              example |-> 0,
              takeoffs |-> 0,
              landings |-> 0,
              team_updates |-> << >>,
              other_updates |-> << >>,
              saved |-> FALSE ]

\* the constructor (lines 14-30) leaves team_code_ref_found and
\* team_code_ref_location uninitialised (team_code_ref_found_assigned tells
\* whether the flag holds a value yet), sets team_code_ref_id and starts
\* the idle clock; Initialise() (lines 48-52) is ResetFlight(true)
Init ==
  /\ now = 0
  /\ last_team_code_update = Undefined
  /\ waypoints = InitialWaypoints
  /\ gc = [ calc |-> ClearedDerived,
            finish |-> ClearedDerived,
            trace_history_time |-> DeltaTimeReset,
            idle_clock |-> PeriodClockUpdate(now),
            team_code_ref_id |-> UnsetWaypointId,
            team_code_ref_found |-> FALSE,
            team_code_ref_found_assigned |-> FALSE,
            team_code_ref_location |-> 0 ]
  /\ other = gc
  /\ hist = [ op |-> "Initialise",
              board |-> DefaultIn,
              log |-> << >>,
              ret |-> FALSE,
              idle_ref |-> now,
              edge |-> <<FALSE, FALSE>>,
              finish_edge |-> <<FALSE, FALSE>>,
              example |-> 0,
              takeoffs |-> 0,
              landings |-> 0,
              team_updates |-> << >>,
              other_updates |-> << >>,
              saved |-> FALSE ]

-----------------------------------------------------------------------------
(* The operations *)

\* hist records, of the last call: op, the operation; board, the sample and
\* settings it ran on; log, the steps and hooks it ran, in order; ret, what
\* ProcessGPS returned; edge, the flying flag before the tick and as
\* FlightTimes left it; finish_edge, the task_finished flag before the tick
\* and as the task computation left it.  And since construction: idle_ref, the steady time of
\* the construction or of the last tick that returned true; example, how
\* many ticks there were if they were all the calls so far and FlightTimes
\* gave them the first flags of ExampleFlags (Undefined if not), with the
\* takeoffs and landings in them; team_updates, the steady times at which
\* the own team code was recomputed, and other_updates, those at which the
\* second instance recomputed its own; saved, whether SaveFinish has run.

\* the flag sequence of the example: [false, false, true, true, false]
ExampleFlags == <<FALSE, FALSE, TRUE, TRUE, FALSE>>

\* the state a call runs on: the instance, the static clock, and the record
\* of the call
Running == gc @@ [team_clock |-> last_team_code_update,
                  log |-> << >>, ret |-> FALSE]

\* the instance's part of a running state
InstanceOf(m) == [f \in DOMAIN gc |-> m[f]]

Count(log, e) == Cardinality({i \in DOMAIN log : log[i] = e})

\* what stays on the blackboard after the tick: the sample and the
\* settings, not what the collaborators derived
Blackboard(in) ==
  [in EXCEPT !.flying = DefaultIn.flying,
             !.task_finished = DefaultIn.task_finished,
             !.min_working_height = DefaultIn.min_working_height,
             !.max_working_height = DefaultIn.max_working_height,
             !.terrain_base_valid = DefaultIn.terrain_base_valid,
             !.terrain_base = DefaultIn.terrain_base,
             !.terrain_altitude = DefaultIn.terrain_altitude,
             !.expire_fuel = DefaultIn.expire_fuel,
             !.long_gap = DefaultIn.long_gap,
             !.ub_int = DefaultIn.ub_int,
             !.uninitialised_bool = DefaultIn.uninitialised_bool]

\* one tick: the caller has put the sample and the settings on the
\* blackboard, and calls ProcessGPS at steady time in.now
Tick(in) ==
  LET m == ProcessGPS(Running, in)
      logging == /\ hist.example \in 0..(Len(ExampleFlags) - 1)
                 /\ in.flying = ExampleFlags[hist.example + 1]
  IN /\ in.now >= now
     /\ gc' = InstanceOf(m)
     /\ last_team_code_update' = m.team_clock
     /\ now' = in.now
     /\ UNCHANGED <<waypoints, other>>
     /\ hist' = [ op |-> "ProcessGPS",
                  board |-> Blackboard(in),
                  log |-> m.log,
                  ret |-> m.ret,
                  idle_ref |-> IF m.ret THEN in.now ELSE hist.idle_ref,
                  edge |-> <<gc.calc.flying, in.flying>>,
                  finish_edge |-> <<gc.calc.task_finished, in.task_finished>>,
                  example |->
                    IF logging THEN hist.example + 1
                    ELSE IF hist.example = Len(ExampleFlags) THEN hist.example
                    ELSE Undefined,
                  takeoffs |->
                    IF logging THEN hist.takeoffs + Count(m.log, "OnTakeoff")
                    ELSE hist.takeoffs,
                  landings |->
                    IF logging THEN hist.landings + Count(m.log, "OnLanding")
                    ELSE hist.landings,
                  team_updates |->
                    IF Count(m.log, "own_teammate_code.Update") > 0
                      THEN Append(hist.team_updates, in.now)
                      ELSE hist.team_updates,
                  other_updates |-> hist.other_updates,
                  saved |-> hist.saved \/ Count(m.log, "SaveFinish") > 0 ]

\* one tick of the second instance, on a blackboard of its own: the same
\* ProcessGPS, the same static clock
TickOther(in) ==
  LET m == ProcessGPS(other @@ [team_clock |-> last_team_code_update,
                                log |-> << >>, ret |-> FALSE], in)
  IN /\ in.now >= now
     /\ other' = InstanceOf(m)
     /\ last_team_code_update' = m.team_clock
     /\ now' = in.now
     /\ UNCHANGED <<gc, waypoints>>
     /\ hist' = [hist EXCEPT
                   !.op = "ProcessGPS(other)",
                   !.board = Blackboard(in),
                   !.log = m.log,
                   !.ret = m.ret,
                   !.example = IF @ = Len(ExampleFlags) THEN @ ELSE Undefined,
                   !.other_updates =
                      IF Count(m.log, "own_teammate_code.Update") > 0
                        THEN Append(@, in.now) ELSE @]

\* the idle pass, on the sample the blackboard holds
Idle ==
  LET m == ProcessIdle(Running, hist.board)
  IN /\ gc' = InstanceOf(m)
     /\ last_team_code_update' = m.team_clock
     /\ UNCHANGED <<now, waypoints, other>>
     /\ hist' = [hist EXCEPT !.op = "ProcessIdle", !.log = m.log,
                             !.ret = FALSE,
                             !.example = IF @ = Len(ExampleFlags) THEN @
                                         ELSE Undefined]

\* ResetFlight(full), between two ticks
Reset(full) ==
  LET m == ResetFlight(Running, full)
  IN /\ gc' = InstanceOf(m)
     /\ last_team_code_update' = m.team_clock
     /\ UNCHANGED <<now, waypoints, other>>
     /\ hist' = [hist EXCEPT !.op = IF full THEN "ResetFlight(true)"
                                            ELSE "ResetFlight(false)",
                             !.log = m.log, !.ret = FALSE,
                             !.example = IF @ = Len(ExampleFlags) THEN @
                                         ELSE Undefined]

\* the waypoint store reloaded between two ticks: it holds the ids S
LoadWaypoints(S) ==
  /\ S # waypoints
  /\ waypoints' = S
  /\ UNCHANGED <<gc, other, last_team_code_update, now>>
  /\ hist' = [hist EXCEPT !.op = "LoadWaypoints", !.log = << >>,
                          !.ret = FALSE,
                          !.example = IF @ = Len(ExampleFlags) THEN @
                                      ELSE Undefined]

-----------------------------------------------------------------------------
(* The inputs of a tick *)

\* every outcome of the flight-phase collaborator, and the outcomes
\* finished of the task collaborator
WithFlight(S, finished) ==
  { [in EXCEPT !.flying = f, !.task_finished = t] :
      in \in S, f \in BOOLEAN, t \in finished }

\* the steady clock moved on by one of the steps, up to max
WithSteadyClock(S, steps, max) ==
  { [in EXCEPT !.now = now + d] :
      in \in S, d \in {d \in steps : now + d <= max} }

\* the flight phase: takeoffs, landings, finishes
FlightInputs == WithFlight({DefaultIn}, BOOLEAN)

NextFlight ==
  \/ \E in \in FlightInputs : Tick(in)
  \/ Idle
  \/ \E full \in BOOLEAN : Reset(full)

SpecFlight == Init /\ [][NextFlight]_vars

\* the working band: every statistic, terrain base and altitude up to
\* MaxHeight
MaxHeight == 2

BandInputs ==
  WithFlight(
    { [DefaultIn EXCEPT !.min_working_height = lo,
                        !.max_working_height = hi,
                        !.terrain_base_valid = t[1],
                        !.terrain_base = t[2],
                        !.safety_height_arrival = t[3],
                        !.nav_altitude_available = a[1],
                        !.nav_altitude = a[2]] :
        lo \in 0..MaxHeight, hi \in 0..MaxHeight,
        t \in {<<FALSE, 0, 0>>, <<TRUE, 0, 1>>, <<TRUE, MaxHeight, 1>>},
        a \in {<<FALSE, 0>>, <<TRUE, 1>>} },
    {TRUE})

NextBand ==
  \/ \E in \in BandInputs : Tick(in)
  \/ Reset(TRUE)

SpecBand == Init /\ [][NextBand]_vars

\* the team code: ticks at the same instant, 1 s, 4 s and 10 s apart, with
\* the reference waypoint unset and in the store
TeamInputs ==
  WithSteadyClock(
    { [DefaultIn EXCEPT !.team_code_reference_waypoint = wp,
                        !.location_available = TRUE,
                        !.location = 5] :
        wp \in {UnsetWaypointId, 0} },
    {0, 1000, 4000, 10000}, MaxNowTeam)

NextTeam ==
  \/ \E in \in TeamInputs : Tick(in)
  \/ Reset(TRUE)

SpecTeam == Init /\ [][NextTeam]_vars

\* the idle clock: ticks at the same instant and 250, 500 and 750 ms apart
IdleInputs ==
  WithSteadyClock(WithFlight({DefaultIn}, {FALSE}),
                  {0, 250, 500, 750}, MaxNowIdle)

NextIdle ==
  \/ \E in \in IdleInputs : Tick(in)
  \/ Idle
  \/ \E full \in BOOLEAN : Reset(full)

SpecIdle == Init /\ [][NextIdle]_vars

\* the trace history: samples without a time, and with the times T = 0,
\* T + 0.1 s, T + 0.5 s, T + 0.6 s, T + 5.6 s, T + 36 s in any order; a gap
\* above the maximum with each of its outcomes
TraceTimes == {0, 100, 500, 600, 5600, 36000}

LongGapOutcomes == {"delta", "skip", "warp"}

TraceInputs ==
  { [DefaultIn EXCEPT !.time_available = a[1], !.time = a[2],
                      !.long_gap = g] :
      a \in {<<FALSE, 0>>} \cup {<<TRUE, t>> : t \in TraceTimes},
      g \in LongGapOutcomes }

\* the outcome of a long gap matters only to a sample after a long gap
AfterLongGap(in) ==
  /\ in.time_available
  /\ gc.trace_history_time # Undefined
  /\ in.time - gc.trace_history_time > TraceMaxDeltaMs

NextTrace ==
  \/ \E in \in TraceInputs :
       /\ AfterLongGap(in) \/ in.long_gap = DefaultIn.long_gap
       /\ Tick(in)
  \/ \E full \in BOOLEAN : Reset(full)

SpecTrace == Init /\ [][NextTrace]_vars

\* the fuel estimate: a consumption of -1.0, 0.0, epsilon, 2 epsilon, 0.7
\* and 5.0 l/h with 0.0 and 10.0 l on board; the sample clock standing or
\* advancing; the estimate going stale or not; an out-of-range conversion
\* with each of its outcomes
FuelConsumptions ==
  {Tenths(-10), Tenths(0), Epsilons(1), Epsilons(2), Tenths(7), Tenths(50)}

FuelOnboards == {0, 100}

ConversionOutcomes == {IntMin, 0, IntMax}

FuelInputs ==
  { [DefaultIn EXCEPT !.fuel_consumption = c, !.fuel_onboard = o,
                      !.clock = k, !.expire_fuel = e, !.ub_int = u] :
      c \in FuelConsumptions, o \in FuelOnboards,
      k \in {k \in {hist.board.clock, hist.board.clock + 1} : k <= MaxClock},
      e \in BOOLEAN, u \in ConversionOutcomes }

\* the outcome of the conversion matters only to a quotient out of range
OutOfIntRange(in) ==
  /\ ~IsNegative(in.fuel_consumption)
  /\ ~FabsWithinEpsilon(in.fuel_consumption)
  /\ ~FuelQuotientInIntRange(in.fuel_onboard, in.fuel_consumption)

NextFuel ==
  \/ \E in \in FuelInputs :
       /\ OutOfIntRange(in) \/ in.ub_int = DefaultIn.ub_int
       /\ Tick(in)
  \/ \E full \in BOOLEAN : Reset(full)

SpecFuel == Init /\ [][NextFuel]_vars

\* the local time: samples with and without a time, of an unknown date and
\* of the days 1 and 2, early and late in the day, with the offsets -2 h,
\* 0 and +2 h
TimeInputs ==
  { [DefaultIn EXCEPT !.time_available = a,
                      !.date_time_utc = [date |-> d, tod |-> h],
                      !.utc_offset = o] :
      a \in BOOLEAN, d \in {Invalid, 1, 2}, h \in {0, 1, 22, 23},
      o \in {-2, 0, 2} }

NextTime ==
  \/ \E in \in TimeInputs : Tick(in)
  \/ \E full \in BOOLEAN : Reset(full)

SpecTime == Init /\ [][NextTime]_vars

\* everything together, a case of each: flights with finishes, a team
\* reference, timed samples, a fuel estimate
MixedInputs ==
  WithFlight(
    { [DefaultIn EXCEPT !.time_available = TRUE, !.time = 0],
      [DefaultIn EXCEPT !.time_available = TRUE, !.time = 600,
                        !.team_code_reference_waypoint = 0,
                        !.location_available = TRUE, !.location = 5,
                        !.fuel_consumption = Tenths(50),
                        !.fuel_onboard = 100, !.clock = 1] },
    BOOLEAN)

Next ==
  \/ \E in \in MixedInputs : Tick(in)
  \/ Idle
  \/ \E full \in BOOLEAN : Reset(full)

Spec == Init /\ [][Next]_vars

\* the team reference and the teammate: the reference unset, waypoint 0 and
\* waypoint 1, which is in the store only after a reload; the teammate not
\* configured, given by a team code, by a traffic contact in sight and by
\* one out of sight; ticks at the same instant and 10 s apart
MaxNowStore == 20000

TeammateSources ==
  { <<Undefined, TeamCodeClear, {}>>,
    <<Undefined, TeamCodeUpdate(3), {}>>,
    <<7, TeamCodeClear,
      {[id |-> 7, location_available |-> TRUE, location |-> 8]}>>,
    <<7, TeamCodeClear, {}>> }

StoreInputs ==
  WithSteadyClock(
    { [DefaultIn EXCEPT !.team_code_reference_waypoint = wp,
                        !.location_available = TRUE,
                        !.location = 5,
                        !.team_flarm_id = t[1],
                        !.team_code = t[2],
                        !.traffic = t[3]] :
        wp \in {UnsetWaypointId, 0, 1}, t \in TeammateSources },
    {0, 10000}, MaxNowStore)

NextStore ==
  \/ \E in \in StoreInputs : Tick(in)
  \/ \E S \in {InitialWaypoints, InitialWaypoints \cup {1}} : LoadWaypoints(S)

SpecStore == Init /\ [][NextStore]_vars

\* the teammate: the reference unset or waypoint 0; a traffic id and a team
\* code each configured or not; the contact out of sight, in sight, and in
\* sight without a location; the own location available or not; ticks at
\* the same instant and 10 s apart
MaxNowTeammate == 10000

TrafficLists ==
  { {},
    {[id |-> 7, location_available |-> TRUE, location |-> 8]},
    {[id |-> 7, location_available |-> FALSE, location |-> 0]} }

\* <<the configured traffic id, the traffic list>>
TeammateContacts ==
  {<<Undefined, {}>>} \cup ({7} \X TrafficLists)

TeammateInputs ==
  WithSteadyClock(
    { [DefaultIn EXCEPT !.team_code_reference_waypoint = wp,
                        !.location_available = la,
                        !.location = IF la THEN 5 ELSE DefaultIn.location,
                        !.team_flarm_id = c[1],
                        !.team_code = tc,
                        !.traffic = c[2]] :
        wp \in {UnsetWaypointId, 0},
        la \in BOOLEAN,
        c \in TeammateContacts,
        tc \in {TeamCodeClear, TeamCodeUpdate(3)} },
    {0, 10000}, MaxNowTeammate)

NextTeammate == \E in \in TeammateInputs : Tick(in)

SpecTeammate == Init /\ [][NextTeammate]_vars

\* two instances in one process: each ticked with the reference unset or
\* waypoint 0, at the same instant, 1 s and 10 s apart, in any interleaving
MaxNowInstances == 11000

InstanceInputs ==
  WithSteadyClock(
    { [DefaultIn EXCEPT !.team_code_reference_waypoint = wp,
                        !.location_available = TRUE,
                        !.location = 5] :
        wp \in {UnsetWaypointId, 0} },
    {0, 1000, 10000}, MaxNowInstances)

NextInstances ==
  \/ \E in \in InstanceInputs : Tick(in)
  \/ \E in \in InstanceInputs : TickOther(in)

SpecInstances == Init /\ [][NextInstances]_vars

\* resets between ticks that move every clock of the orchestrator: samples
\* timed 0 and 0.6 s, the reference unset or waypoint 0, the steady clock
\* standing or 0.6 s on
MaxNowReset == 1200

ResetInputs ==
  WithSteadyClock(
    { [DefaultIn EXCEPT !.time_available = TRUE, !.time = t,
                        !.team_code_reference_waypoint = wp,
                        !.location_available = TRUE, !.location = 5] :
        t \in {0, 600}, wp \in {UnsetWaypointId, 0} },
    {0, 600}, MaxNowReset)

NextReset ==
  \/ \E in \in ResetInputs : Tick(in)
  \/ \E full \in BOOLEAN : Reset(full)

SpecReset == Init /\ [][NextReset]_vars

-----------------------------------------------------------------------------
(* C1: the flight-phase hooks fire exactly once per edge.  In every tick   *)
(* OnTakeoff runs once if the flying flag was false when the tick started  *)
(* and FlightTimes left it true, and not otherwise; OnLanding runs once if *)
(* it was true and is now false, and not otherwise.  So the ticks of the   *)
(* example, the flags [false, false, true, true, false] from construction, *)
(* have run as many takeoffs and landings as the flags so far have rising  *)
(* and falling edges: one of each in the end.                              *)

\* the flag before the k-th tick of the example
ExampleBefore(k) == IF k = 1 THEN FALSE ELSE ExampleFlags[k - 1]

Rising(n) ==
  Cardinality({k \in 1..n : ~ExampleBefore(k) /\ ExampleFlags[k]})

Falling(n) ==
  Cardinality({k \in 1..n : ExampleBefore(k) /\ ~ExampleFlags[k]})

C1_HooksOncePerEdge ==
  [][ /\ hist'.op = "ProcessGPS" =>
          /\ Count(hist'.log, "OnTakeoff")
               = IF ~gc.calc.flying /\ hist'.edge[2] THEN 1 ELSE 0
          /\ Count(hist'.log, "OnLanding")
               = IF gc.calc.flying /\ ~hist'.edge[2] THEN 1 ELSE 0
      /\ hist'.example # Undefined =>
          /\ hist'.takeoffs = Rising(hist'.example)
          /\ hist'.landings = Falling(hist'.example) ]_vars

\* the five ticks of the example have run, with one takeoff and one landing
C1_Witness ==
  /\ hist.example = Len(ExampleFlags)
  /\ hist.takeoffs = 1
  /\ hist.landings = 1

-----------------------------------------------------------------------------
(* C2: after every tick, whatever the statistics, the terrain base and the *)
(* navigation altitude, height_max_working >= height_min_working.          *)

C2_WorkingBandOrdered ==
  hist.op = "ProcessGPS" =>
    gc.calc.height_max_working >= gc.calc.height_min_working

\* a tick whose lower bound was raised by the terrain base above zero, with
\* the band collapsed to it
C2_Witness ==
  /\ hist.op = "ProcessGPS"
  /\ gc.calc.terrain_base_valid
  /\ gc.calc.height_min_working = MaxHeight + 1
  /\ gc.calc.height_max_working = gc.calc.height_min_working
  /\ hist.board.nav_altitude_available

-----------------------------------------------------------------------------
(* C3: the own team code is recomputed at most once per 10 seconds of the  *)
(* steady clock, whatever the tick rate: no tick recomputes it twice, two  *)
(* recomputations are at least 10 s apart, and no 30 s (the ticks at t,    *)
(* t + 1 s, ..., t + 29 s) hold more than 3 of them.                       *)

ThrottleWindowMs == 3 * TeamCodeIntervalMs

C3_OwnCodeThrottled ==
  LET u == hist.team_updates
  IN /\ Count(hist.log, "own_teammate_code.Update") <= 1
     /\ \A i \in 1..(Len(u) - 1) : u[i + 1] - u[i] >= TeamCodeIntervalMs
     /\ \A i \in DOMAIN u :
          Cardinality({j \in DOMAIN u :
                         u[i] <= u[j] /\ u[j] < u[i] + ThrottleWindowMs}) <= 3

\* three recomputations within 30 s, and then a tick that resolves the
\* reference and does not recompute
C3_Witness ==
  /\ hist.op = "ProcessGPS"
  /\ Len(hist.team_updates) = 3
  /\ now - hist.team_updates[1] < ThrottleWindowMs
  /\ now > hist.team_updates[3]
  /\ hist.board.team_code_reference_waypoint = 0
  /\ gc.team_code_ref_found
  /\ Count(hist.log, "own_teammate_code.Update") = 0

-----------------------------------------------------------------------------
(* C10: ProcessGPS returns true exactly when at least 500 ms of the steady *)
(* clock have passed since the construction or the last tick that returned *)
(* true, whichever is later; so two ticks in a row less than 500 ms apart  *)
(* never both return true.                                                 *)

C10_IdleDue ==
  [][ hist'.op = "ProcessGPS" =>
        /\ hist'.ret <=> (now' - hist.idle_ref >= IdleIntervalMs)
        /\ hist.op = "ProcessGPS" /\ hist.ret /\ hist'.ret
             => now' - now >= IdleIntervalMs ]_vars

\* a tick that returned true, then one 250 ms later that returned false:
\* the next is due 500 ms after the first
C10_Witness ==
  /\ hist.op = "ProcessGPS"
  /\ ~hist.ret
  /\ hist.idle_ref > 0
  /\ now - hist.idle_ref = 250
  /\ gc.idle_clock = hist.idle_ref

-----------------------------------------------------------------------------
(* C4: a tick whose sample time is earlier than the time the trace clock  *)
(* holds (the last sample it recorded since the last flight reset) clears *)
(* the trace history and appends nothing; the clock restarts at the       *)
(* sample.                                                                *)

Appended(log) == Count(log, "trace_history.append")
Cleared(log) == Count(log, "trace_history.clear")

C4_BackwardJumpClears ==
  [][ /\ hist'.op = "ProcessGPS"
      /\ hist'.board.time_available
      /\ gc.trace_history_time # Undefined
      /\ hist'.board.time < gc.trace_history_time
      => /\ gc'.calc.trace_history = << >>
         /\ Cleared(hist'.log) = 1
         /\ Appended(hist'.log) = 0
         /\ gc'.trace_history_time = hist'.board.time ]_vars

\* the sample T + 0.6 s cleared the history: the clock held a later time,
\* since no sample before T + 0.6 s is a long gap away
C4_Witness ==
  /\ hist.op = "ProcessGPS"
  /\ hist.board.time_available
  /\ hist.board.time = 600
  /\ Cleared(hist.log) = 1
  /\ Appended(hist.log) = 0
  /\ gc.calc.trace_history = << >>
  /\ gc.trace_history_time = 600

\* the claim as made: earlier than the sample of the tick before
C4_EarlierThanPreviousSampleClears ==
  [][ /\ hist'.op = "ProcessGPS"
      /\ hist.board.time_available
      /\ hist'.board.time_available
      /\ hist'.board.time < hist.board.time
      => /\ gc'.calc.trace_history = << >>
         /\ Appended(hist'.log) = 0 ]_vars

-----------------------------------------------------------------------------
(* C5: a tick appends the sample to the trace history only if the sample  *)
(* has a time and at least 500 ms of sample time have passed since the    *)
(* last sample recorded; a sample less than 500 ms after it appends       *)
(* nothing and leaves the history as it is; the first sample T appends    *)
(* nothing and T + 0.6 s after it appends one entry, one in total.        *)

C5_TraceThrottle ==
  [][ hist'.op = "ProcessGPS" =>
        LET last == gc.trace_history_time
            time == hist'.board.time
        IN /\ Appended(hist'.log) <= 1
           /\ Appended(hist'.log) = 1 =>
                /\ hist'.board.time_available
                /\ last # Undefined
                /\ time - last >= TraceMinDeltaMs
                /\ Cleared(hist'.log) = 0
           /\ /\ hist'.board.time_available
              /\ last # Undefined
              /\ last <= time
              /\ time - last < TraceMinDeltaMs
              => /\ Appended(hist'.log) = 0
                 /\ gc'.calc.trace_history = gc.calc.trace_history
           /\ hist'.board.time_available /\ last = Undefined
              => /\ Appended(hist'.log) = 0
                 /\ gc'.calc.trace_history = gc.calc.trace_history
           /\ /\ hist'.board.time_available
              /\ last # Undefined
              /\ time - last = 600
              => /\ Appended(hist'.log) = 1
                 /\ gc.calc.trace_history = << >>
                      => gc'.calc.trace_history = <<time>> ]_vars

\* T, then T + 0.6 s: one entry
C5_Witness ==
  /\ hist.op = "ProcessGPS"
  /\ hist.board.time_available
  /\ hist.board.time = 600
  /\ Appended(hist.log) = 1
  /\ gc.calc.trace_history = <<600>>
  /\ gc.trace_history_time = 600

-----------------------------------------------------------------------------
(* C6: in a tick whose fuel consumption is negative, zero or within        *)
(* epsilon of zero, the fuel estimate is not computed: the value stays as  *)
(* it was and the validity stays as it was or goes stale.                  *)

\* -1.0, 0.0, epsilon: not 2 epsilon, 0.7, 5.0
ZeroOrNegative(c) == c.m <= 0 \/ (c.tiny /\ c.m <= 1)

FuelUpdates(log) == Count(log, "fuel_burn_time_remain.Update")

-----------------------------------------------------------------------------
(* C7: in a tick with a positive fuel consumption (one the guard lets      *)
(* through), fuel_burn_time_remain is onboard / consumption * 3600, to the *)
(* whole second below, and its validity is the sample clock.               *)

C7_FuelRemainIsQuotient ==
  [][ /\ hist'.op = "ProcessGPS"
      /\ ~ZeroOrNegative(hist'.board.fuel_consumption)
      => LET c == hist'.board.fuel_consumption
             onboard == hist'.board.fuel_onboard
             remain == gc'.calc.fuel_burn_time_remain
         IN /\ FuelUpdates(hist'.log) = 1
            /\ gc'.calc.fuel_burn_time_remain_available = hist'.board.clock
            /\ IF c.tiny
                 \* a quotient of 0, or one far above the largest int
                 THEN onboard = 0 /\ remain = 0
                 ELSE /\ remain * c.m <= onboard * SecondsPerHour
                      /\ onboard * SecondsPerHour < (remain + 1) * c.m ]_vars

-----------------------------------------------------------------------------
(* C8: after a tick, the local date-time is: fully invalid if the sample   *)
(* has no time; an invalid date with the UTC time of day plus the offset   *)
(* (around midnight) if the sample has a time and no plausible date; the   *)
(* UTC date-time plus the offset, the date moving with it, if the date is  *)
(* plausible.                                                              *)

-----------------------------------------------------------------------------
(* C9: in every state, ResetFlight(true) twice leaves the computer (the    *)
(* instance with its blackboard, and the team code clock) as               *)
(* ResetFlight(true) once does.                                            *)

Once == ResetFlight(Running, TRUE)

Twice == ResetFlight([Once EXCEPT !.log = << >>], TRUE)

-----------------------------------------------------------------------------
(* C11: every tick runs the steps of the list in the order of the list:    *)
(* local time, expiry, primary sensor computation, basic task computation, *)
(* working band, task auto-progress, vertical computation, climb events,   *)
(* cruise computation, own team code, teammate bearing and range, trace    *)
(* history, vario scale, condition monitors, fuel estimate; so the stale   *)
(* fields are expired before any sub-computer runs.                        *)

MandatedSteps ==
  << "LocalDateTime", "Expire", "ProcessBasic", "ProcessBasicTask",
     "CalculateWorkingBand", "ProcessAutoTask", "ProcessVertical",
     "ProcessClimbEvents", "cu_computer.Compute", "CalculateOwnTeamCode",
     "CalculateTeammateBearingRange", "UpdateTraceHistory",
     "CalculateVarioScale", "condition_monitors.Update",
     "CalculateFuelBurnTimeRemain" >>

IsMandated(e) == \E i \in DOMAIN MandatedSteps : MandatedSteps[i] = e

\* where the step e is in the log of a call (0: nowhere)
Index(log, e) ==
  IF \E i \in DOMAIN log : log[i] = e
    THEN CHOOSE i \in DOMAIN log :
           log[i] = e /\ \A j \in 1..(i - 1) : log[j] # e
    ELSE 0

\* the other task computation, ProcessMoreTask, is between the working band
\* and the vertical computation as well
C11_StepOrder ==
  hist.op = "ProcessGPS" =>
    /\ SelectSeq(hist.log, IsMandated) = MandatedSteps
    /\ hist.log[1] = "LocalDateTime"
    /\ hist.log[2] = "Expire"
    /\ Index(hist.log, "CalculateWorkingBand")
         < Index(hist.log, "ProcessMoreTask")
    /\ Index(hist.log, "ProcessMoreTask")
         < Index(hist.log, "ProcessAutoTask")

\* a tick with a timed sample, a team reference and a fuel estimate, in
\* which the aircraft took off
C11_Witness ==
  /\ hist.op = "ProcessGPS"
  /\ hist.board.time_available
  /\ hist.board.location_available
  /\ Count(hist.log, "OnTakeoff") = 1
  /\ Count(hist.log, "fuel_burn_time_remain.Update") = 1
  /\ Len(hist.log) > Len(MandatedSteps)

-----------------------------------------------------------------------------
(* C12: the finish hook OnFinishTask, which snapshots the finish state,    *)
(* runs in a tick if and only if task_finished was false before the task   *)
(* computation of the tick and is true after it, and then once: not again  *)
(* in later ticks while the flag stays true.                               *)

-----------------------------------------------------------------------------
(* C13: every idle pass runs statistics logging, flight-recorder logging,  *)
(* the idle task computation, the airspace-warning update and the idle     *)
(* condition monitors, in this order, and then samples the retrospective   *)
(* track if and only if the sample has a location.                         *)

IdleSteps ==
  << "stats_computer.DoLogging", "log_computer.Run",
     "task_computer.ProcessIdle", "warning_computer.Update",
     "idle_condition_monitors.Update" >>

C13_IdlePass ==
  hist.op = "ProcessIdle" =>
    hist.log = IF hist.board.location_available
                 THEN Append(IdleSteps, "retrospective.UpdateSample")
                 ELSE IdleSteps

\* an idle pass on a sample without a location, after ticks had one
C13_Witness ==
  /\ hist.op = "ProcessIdle"
  /\ ~hist.board.location_available
  /\ hist.log = IdleSteps
  /\ gc.team_code_ref_found

-----------------------------------------------------------------------------
(* C14: when the finish edge is detected, the finish hook runs after the   *)
(* basic task computation, the working band and ProcessMoreTask, and       *)
(* before FlightTimes and every later step of the tick: the snapshot holds *)
(* the working band of the tick.                                           *)

LaterSteps ==
  { "FlightTimes", "OnTakeoff", "OnLanding", "ProcessAutoTask",
    "ProcessVertical", "ProcessClimbEvents", "cu_computer.Compute",
    "CalculateOwnTeamCode", "CalculateTeammateBearingRange",
    "UpdateTraceHistory", "CalculateVarioScale",
    "condition_monitors.Update", "CalculateFuelBurnTimeRemain" }

C14_FinishHookAfterMoreTask ==
  hist.op = "ProcessGPS" /\ Count(hist.log, "OnFinishTask") = 1 =>
    LET at == Index(hist.log, "OnFinishTask")
    IN /\ Index(hist.log, "ProcessBasicTask") < at
       /\ Index(hist.log, "CalculateWorkingBand") < at
       /\ hist.log[at - 1] = "ProcessMoreTask"
       /\ hist.log[at + 1] = "SaveFinish"
       /\ hist.log[at + 2] = "FlightTimes"
       /\ \A i \in 1..at : hist.log[i] \notin LaterSteps
       /\ gc.finish.height_min_working = gc.calc.height_min_working
       /\ gc.finish.height_max_working = gc.calc.height_max_working

\* a finish in a tick that raised the working band: the raised band is in
\* the snapshot
C14_Witness ==
  /\ hist.op = "ProcessGPS"
  /\ Count(hist.log, "OnFinishTask") = 1
  /\ Count(hist.log, "OnTakeoff") = 0
  /\ gc.finish.height_min_working = MaxHeight + 1
  /\ gc.calc.height_min_working = MaxHeight + 1

\* the claim as made: the hook before the working band and before any
\* further task computation
C14_FinishHookBeforeWorkingBand ==
  hist.op = "ProcessGPS" /\ Count(hist.log, "OnFinishTask") = 1 =>
    LET at == Index(hist.log, "OnFinishTask")
    IN /\ Index(hist.log, "ProcessBasicTask") < at
       /\ at < Index(hist.log, "CalculateWorkingBand")
       /\ at < Index(hist.log, "ProcessMoreTask")
       /\ at < Index(hist.log, "ProcessAutoTask")

-----------------------------------------------------------------------------
(* C15: the takeoff/landing edge is evaluated right after FlightTimes,     *)
(* before the task auto-progress, the vertical computation, the team code, *)
(* the trace history, the vario scale, the condition monitors and the fuel *)
(* estimate of the tick: these steps run on what the hook left, and the    *)
(* snapshot of a takeoff does not hold what they write in the tick.        *)

StepsAfterEdge == LaterSteps \ {"FlightTimes", "OnTakeoff", "OnLanding"}

EdgeHooks(log) == Count(log, "OnTakeoff") + Count(log, "OnLanding")

EdgeHookAt(log) ==
  IF Count(log, "OnTakeoff") = 1 THEN Index(log, "OnTakeoff")
  ELSE Index(log, "OnLanding")

C15_EdgeAfterFlightTimes ==
  [][ hist'.op = "ProcessGPS" /\ EdgeHooks(hist'.log) = 1 =>
        LET at == EdgeHookAt(hist'.log)
        IN /\ hist'.log[at - 1] = "FlightTimes"
           /\ \A e \in StepsAfterEdge : at < Index(hist'.log, e)
           /\ Count(hist'.log, "OnTakeoff") = 1 =>
                /\ gc'.finish.trace_history = gc.calc.trace_history
                /\ gc'.finish.fuel_burn_time_remain_available
                     = gc.calc.fuel_burn_time_remain_available ]_vars

\* a takeoff in a tick that made the first fuel estimate: the estimate is
\* not in the snapshot of the takeoff
C15_Witness ==
  /\ hist.op = "ProcessGPS"
  /\ Count(hist.log, "OnTakeoff") = 1
  /\ Count(hist.log, "fuel_burn_time_remain.Update") = 1
  /\ gc.calc.fuel_burn_time_remain_available # Invalid
  /\ gc.finish.fuel_burn_time_remain_available = Invalid

\* the claim as made: the edge evaluated after all these steps
C15_EdgeEvaluatedLast ==
  hist.op = "ProcessGPS" /\ EdgeHooks(hist.log) = 1 =>
    \A e \in StepsAfterEdge : Index(hist.log, e) < EdgeHookAt(hist.log)

-----------------------------------------------------------------------------
(* C16: the takeoff hook resets the air-data computer for the flight (not  *)
(* fully) and then takes the snapshot, whether or not the task is          *)
(* finished; no tick resets anything fully or resets another computer.     *)

ResetSteps ==
  { "air_data.ResetFlight(true)", "task_computer.ResetFlight",
    "stats_computer.ResetFlight", "log_computer.Reset",
    "retrospective.Reset", "cu_computer.Reset", "warning_computer.Reset" }

C16_TakeoffHook ==
  hist.op = "ProcessGPS" =>
    /\ \A i \in DOMAIN hist.log : hist.log[i] \notin ResetSteps
    /\ Count(hist.log, "air_data.ResetFlight(false)")
         = Count(hist.log, "OnTakeoff")
    /\ Count(hist.log, "OnTakeoff") = 1 =>
         LET at == Index(hist.log, "OnTakeoff")
         IN /\ hist.log[at + 1] = "air_data.ResetFlight(false)"
            /\ hist.log[at + 2] = "SaveFinish"
            /\ gc.calc.flying

\* a takeoff with the task finished before
C16_Witness ==
  /\ hist.op = "ProcessGPS"
  /\ hist.edge = <<FALSE, TRUE>>
  /\ hist.finish_edge = <<TRUE, TRUE>>
  /\ Count(hist.log, "OnTakeoff") = 1
  /\ Count(hist.log, "SaveFinish") = 1

-----------------------------------------------------------------------------
(* C17: the landing hook restores the snapshot if and only if the task is  *)
(* finished as the task computation of the tick left it; a landing with an *)
(* unfinished task, and a tick without a landing, restore nothing.         *)

C17_LandingHook ==
  [][ hist'.op = "ProcessGPS" =>
        LET landing == hist'.edge = <<TRUE, FALSE>>
            at == Index(hist'.log, "OnLanding")
        IN /\ Count(hist'.log, "OnLanding") = IF landing THEN 1 ELSE 0
           /\ Count(hist'.log, "RestoreFinish")
                = IF landing /\ hist'.finish_edge[2] THEN 1 ELSE 0
           /\ landing /\ hist'.finish_edge[2]
                => hist'.log[at + 1] = "RestoreFinish"
           /\ landing /\ ~hist'.finish_edge[2]
                => /\ gc'.finish = gc.finish
                   /\ hist'.log[at + 1] = "ProcessAutoTask" ]_vars

\* a landing with the task unfinished, after a flight that had a snapshot
C17_Witness ==
  /\ hist.op = "ProcessGPS"
  /\ hist.edge = <<TRUE, FALSE>>
  /\ ~hist.finish_edge[2]
  /\ Count(hist.log, "OnLanding") = 1
  /\ Count(hist.log, "RestoreFinish") = 0
  /\ gc.finish.flying

-----------------------------------------------------------------------------
(* C18: a tick looks the reference waypoint up in the store only if the    *)
(* configured id is set and differs from the cached id, and then once;     *)
(* while the configured id is the cached one (or unset) the cached id,     *)
(* location and found flag stay as they are, whatever the store holds.     *)

Lookups(log) == Count(log, "waypoints.LookupId")

C18_ReferenceCached ==
  [][ hist'.op = "ProcessGPS" =>
        LET wp == hist'.board.team_code_reference_waypoint
        IN /\ Lookups(hist'.log)
                = IF wp >= 0 /\ wp # gc.team_code_ref_id THEN 1 ELSE 0
           /\ Lookups(hist'.log) = 0 =>
                /\ gc'.team_code_ref_id = gc.team_code_ref_id
                /\ gc'.team_code_ref_found = gc.team_code_ref_found
                /\ gc'.team_code_ref_location = gc.team_code_ref_location
           /\ Count(hist'.log, "team_code_ref_found.read_uninitialised") = 0
     ]_vars

\* a tick 20 s after the start with the reference it had cached: no
\* lookup, and the teammate computed from the cached location
C18_Witness ==
  /\ hist.op = "ProcessGPS"
  /\ now = MaxNowStore
  /\ hist.board.team_code_reference_waypoint = 0
  /\ Lookups(hist.log) = 0
  /\ gc.team_code_ref_found
  /\ gc.team_code_ref_location = WaypointLocation(0)
  /\ Count(hist.log, "ComputeTeamCode") = 1
  /\ gc.calc.teammate_available

-----------------------------------------------------------------------------
(* C19: with the configured reference id in the waypoint store, a tick     *)
(* finds the reference and runs the team computations, also when the id    *)
(* was not in the store at an earlier tick and is configured unchanged:    *)
(* the resolution is retried every tick until it succeeds.                 *)

TeamComputations(log) ==
  Count(log, "ComputeFlarmTeam") + Count(log, "ComputeTeamCode")

C19_UnresolvedRetried ==
  (hist.op = "ProcessGPS"
     /\ hist.board.team_code_reference_waypoint \in waypoints)
    => /\ gc.team_code_ref_found
       /\ gc.team_code_ref_location
            = WaypointLocation(hist.board.team_code_reference_waypoint)
       /\ (hist.board.team_flarm_id # Undefined
              \/ hist.board.team_code.defined)
            => TeamComputations(hist.log) = 1

-----------------------------------------------------------------------------
(* C20: after a tick with the reference waypoint id unset (negative) no    *)
(* teammate data are marked available: the teammate is not available, the  *)
(* peer code is cleared and not current, and the tick ran neither the      *)
(* own-code nor the teammate computation.                                  *)

C20_UnsetReferenceClears ==
  (hist.op = "ProcessGPS" /\ hist.board.team_code_reference_waypoint < 0)
    => /\ TeamComputations(hist.log) = 0
       /\ Count(hist.log, "own_teammate_code.Update") = 0
       /\ ~gc.calc.teammate_available
       /\ gc.calc.flarm_teammate_code = TeamCodeClear
       /\ ~gc.calc.flarm_teammate_code_current

-----------------------------------------------------------------------------
(* C21: on a tick where the reference resolves exactly one teammate source *)
(* is used: with a FLARM id configured the traffic contact, whether or not *)
(* a team code is entered too (the code is not decoded and the peer code   *)
(* is not cleared); with no FLARM id and a team code entered the code,     *)
(* which clears the peer code and makes the teammate available; with       *)
(* neither, no source.                                                     *)

\* the tick got past the reference check
Resolved(h, g) ==
  h.board.team_code_reference_waypoint >= 0 /\ g.team_code_ref_found

InSight(board) ==
  \E t \in board.traffic : t.id = board.team_flarm_id /\ t.location_available

C21_SourcePrecedence ==
  [][ (hist'.op = "ProcessGPS" /\ Resolved(hist', gc')) =>
        LET b == hist'.board
            flarm == Count(hist'.log, "ComputeFlarmTeam")
            code == Count(hist'.log, "ComputeTeamCode")
        IN /\ b.team_flarm_id # Undefined =>
                /\ flarm = 1 /\ code = 0
                /\ IF InSight(b)
                     THEN /\ gc'.calc.flarm_teammate_code.defined
                          /\ gc'.calc.teammate_location = 8
                     ELSE /\ gc'.calc.flarm_teammate_code
                               = gc.calc.flarm_teammate_code
                          /\ gc'.calc.teammate_location
                               = gc.calc.teammate_location
           /\ (b.team_flarm_id = Undefined /\ b.team_code.defined) =>
                /\ flarm = 0 /\ code = 1
                /\ gc'.calc.flarm_teammate_code = TeamCodeClear
                /\ gc'.calc.teammate_available
                /\ gc'.calc.teammate_location
                     = TeamCodeGetLocation(b.team_code,
                                           gc'.team_code_ref_location)
           /\ (b.team_flarm_id = Undefined /\ ~b.team_code.defined) =>
                flarm = 0 /\ code = 0 ]_vars

\* both configured and the contact in sight: the tick used the contact
C21_Witness ==
  /\ hist.op = "ProcessGPS" /\ Resolved(hist, gc)
  /\ hist.board.team_flarm_id # Undefined /\ hist.board.team_code.defined
  /\ InSight(hist.board)
  /\ Count(hist.log, "ComputeFlarmTeam") = 1
  /\ Count(hist.log, "ComputeTeamCode") = 0
  /\ gc.calc.teammate_location = 8
  /\ gc.calc.flarm_teammate_code.defined
  /\ gc.calc.flarm_teammate_code_current

-----------------------------------------------------------------------------
(* C22: on a tick where the reference resolves, a FLARM id is configured   *)
(* and the contact is not in the traffic list or has no location, the      *)
(* peer code is marked not current and teammate_available,                 *)
(* teammate_location, teammate_vector and flarm_teammate_code keep the     *)
(* values they had before the tick.                                        *)

-----------------------------------------------------------------------------
(* C23: after every tick where the reference resolves and neither a FLARM  *)
(* id nor a team code is configured, teammate_available is false and the   *)
(* peer code is cleared.                                                   *)

C23_NoTeammateConfigured ==
  (/\ hist.op = "ProcessGPS" /\ Resolved(hist, gc)
   /\ hist.board.team_flarm_id = Undefined
   /\ ~hist.board.team_code.defined)
    => /\ ~gc.calc.teammate_available
       /\ gc.calc.flarm_teammate_code = TeamCodeClear

\* the teammate deconfigured after a contact had been used: its location
\* is still in the field, and it is not available
C23_Witness ==
  /\ hist.op = "ProcessGPS" /\ Resolved(hist, gc)
  /\ hist.board.team_flarm_id = Undefined /\ ~hist.board.team_code.defined
  /\ gc.calc.teammate_location = 8
  /\ ~gc.calc.teammate_available
  /\ gc.calc.flarm_teammate_code = TeamCodeClear

-----------------------------------------------------------------------------
(* C24: on every tick where the reference resolves the teammate            *)
(* computation runs past the reference check, whether or not the 10 s      *)
(* throttle lets the own code be recomputed in that tick: the configured   *)
(* source is evaluated once and a team code is decoded against the         *)
(* tick's own location.                                                    *)

C24_TeammateNotThrottled ==
  (hist.op = "ProcessGPS" /\ Resolved(hist, gc))
    => LET b == hist.board
       IN /\ Count(hist.log, "CalculateTeammateBearingRange") = 1
          /\ TeamComputations(hist.log)
               = IF b.team_flarm_id # Undefined \/ b.team_code.defined
                   THEN 1 ELSE 0
          /\ (b.team_flarm_id # Undefined /\ InSight(b)) =>
               gc.calc.teammate_vector = DistanceBearing(b.location, 8)
          /\ (b.team_flarm_id = Undefined /\ b.team_code.defined) =>
               gc.calc.teammate_vector
                 = DistanceBearing(b.location,
                     TeamCodeGetLocation(b.team_code,
                                         gc.team_code_ref_location))

\* a tick at the instant of the last recomputation of the own code: the
\* own code is not recomputed, the teammate is, for the new location
C24_Witness ==
  /\ hist.op = "ProcessGPS" /\ Resolved(hist, gc)
  /\ Len(hist.team_updates) = 1
  /\ now < hist.team_updates[1] + TeamCodeIntervalMs
  /\ Count(hist.log, "own_teammate_code.Update") = 0
  /\ Count(hist.log, "ComputeTeamCode") = 1
  /\ hist.board.location_available
  /\ gc.calc.own_teammate_code = TeamCodeUpdate(DistanceBearing(10, 0))
  /\ gc.calc.teammate_vector = DistanceBearing(5, 13)

-----------------------------------------------------------------------------
(* C25: a tick whose sample has no location available does not compute     *)
(* the team fields that depend on the own location: own_teammate_code and  *)
(* teammate_vector keep the values they had before the tick, and the own   *)
(* code is not updated.                                                    *)

C25_NoLocationNoTeamFields ==
  [][ (hist'.op = "ProcessGPS" /\ ~hist'.board.location_available)
        => /\ Count(hist'.log, "own_teammate_code.Update") = 0
           /\ gc'.calc.own_teammate_code = gc.calc.own_teammate_code
           /\ gc'.calc.teammate_vector = gc.calc.teammate_vector ]_vars

-----------------------------------------------------------------------------
(* C26: with two instances ticking in any interleaving, each instance      *)
(* recomputes its own team code on exactly the ticks where its reference   *)
(* resolves and it has not itself recomputed in the last 10 s: what the    *)
(* other instance did does not enter.                                      *)

\* an instance whose recomputations were at the times ups is due at t
Due(ups, t) ==
  ups = << >> \/ t >= ups[Len(ups)] + TeamCodeIntervalMs

C26_InstancesIndependent ==
  [][ /\ hist'.op = "ProcessGPS" =>
           (Count(hist'.log, "own_teammate_code.Update") = 1
              <=> Resolved(hist', gc') /\ Due(hist.team_updates, now'))
      /\ hist'.op = "ProcessGPS(other)" =>
           (Count(hist'.log, "own_teammate_code.Update") = 1
              <=> Resolved(hist', other') /\ Due(hist.other_updates, now'))
    ]_vars

-----------------------------------------------------------------------------
(* C27: in a tick that detects both the task-finish edge and a takeoff or  *)
(* landing edge the finish hook runs first and snapshots; a landing of     *)
(* that tick then restores this snapshot (taken while the flying flag was  *)
(* still set), and a takeoff of that tick snapshots again after its        *)
(* per-flight reset.                                                       *)

C27_FinishHookBeforeFlightHook ==
  [][ (/\ hist'.op = "ProcessGPS"
       /\ Count(hist'.log, "OnFinishTask") = 1
       /\ EdgeHooks(hist'.log) = 1)
        => LET f == Index(hist'.log, "OnFinishTask")
               h == EdgeHookAt(hist'.log)
           IN /\ f < h
              /\ hist'.log[f + 1] = "SaveFinish"
              /\ hist'.log[f + 2] = "FlightTimes"
              /\ gc'.finish.task_finished
              /\ hist'.log[h] = "OnLanding" =>
                   /\ hist'.log[h + 1] = "RestoreFinish"
                   /\ Count(hist'.log, "SaveFinish") = 1
                   /\ gc'.finish.flying
                   /\ gc'.calc = [gc'.finish EXCEPT !.flying = FALSE]
              /\ hist'.log[h] = "OnTakeoff" =>
                   /\ hist'.log[h + 1] = "air_data.ResetFlight(false)"
                   /\ hist'.log[h + 2] = "SaveFinish"
                   /\ Count(hist'.log, "SaveFinish") = 2
                   /\ Count(hist'.log, "RestoreFinish") = 0
                   /\ gc'.finish.flying
                   /\ gc'.finish = gc'.calc ]_vars

\* the task finished in the tick of the landing
C27_Witness ==
  /\ hist.op = "ProcessGPS"
  /\ hist.edge = <<TRUE, FALSE>> /\ hist.finish_edge = <<FALSE, TRUE>>
  /\ Index(hist.log, "OnFinishTask") < Index(hist.log, "OnLanding")
  /\ Count(hist.log, "RestoreFinish") = 1
  /\ gc.finish.flying /\ gc.finish.task_finished
  /\ ~gc.calc.flying /\ gc.calc.task_finished

-----------------------------------------------------------------------------
(* C28: from construction with the flying flag false, in any sequence of   *)
(* ticks, idle passes and resets, every RestoreFinish comes after a        *)
(* SaveFinish, of an earlier tick or earlier in the same tick; and while   *)
(* the flying flag is set a snapshot has been taken, so that no landing    *)
(* finds none.                                                             *)

C28_NoRestoreWithoutSnapshot ==
  [][ /\ Count(hist'.log, "RestoreFinish") > 0 =>
           \/ hist.saved
           \/ /\ Count(hist'.log, "SaveFinish") > 0
              /\ Index(hist'.log, "SaveFinish")
                   < Index(hist'.log, "RestoreFinish")
      /\ gc'.calc.flying => hist'.saved
      /\ (Count(hist'.log, "OnLanding") > 0 \/ gc.calc.flying) => hist.saved
    ]_vars

\* a landing, the task finished, that restores the snapshot of an earlier tick
C28_Witness ==
  /\ hist.op = "ProcessGPS"
  /\ hist.edge = <<TRUE, FALSE>>
  /\ Count(hist.log, "RestoreFinish") = 1
  /\ Count(hist.log, "SaveFinish") = 0
  /\ hist.saved

-----------------------------------------------------------------------------
(* C29: ResetFlight, full or not, leaves the cached team reference (id,    *)
(* found flag, location), the static 10 s team-code clock and the idle     *)
(* clock as they were, and resets the trace-history clock.                 *)

Resets == {"ResetFlight(true)", "ResetFlight(false)"}

C29_ResetFrame ==
  [][ hist'.op \in Resets =>
        /\ gc'.team_code_ref_id = gc.team_code_ref_id
        /\ gc'.team_code_ref_found = gc.team_code_ref_found
        /\ gc'.team_code_ref_found_assigned = gc.team_code_ref_found_assigned
        /\ gc'.team_code_ref_location = gc.team_code_ref_location
        /\ last_team_code_update' = last_team_code_update
        /\ gc'.idle_clock = gc.idle_clock
        /\ gc'.trace_history_time = DeltaTimeReset ]_vars

\* a reset that is not full, after ticks that resolved the reference,
\* fired both throttles and recorded a trace point: the history is kept,
\* its clock is reset
C29_Witness ==
  /\ hist.op = "ResetFlight(false)"
  /\ gc.team_code_ref_id = 0 /\ gc.team_code_ref_found
  /\ gc.team_code_ref_location = WaypointLocation(0)
  /\ last_team_code_update # Undefined
  /\ gc.idle_clock > 0
  /\ Len(gc.calc.trace_history) > 0
  /\ gc.trace_history_time = DeltaTimeReset

-----------------------------------------------------------------------------
(* C30: team_code_ref_found, which the constructor leaves uninitialised,   *)
(* is never read before it is assigned: in any sequence of settings        *)
(* changes, store reloads and ticks no call returns the flag unassigned,   *)
(* and whenever the cached id is not negative a lookup has assigned the    *)
(* flag.                                                                   *)

C30_FoundFlagAssignedBeforeRead ==
  /\ \A i \in DOMAIN hist.log :
       hist.log[i] # "team_code_ref_found.read_uninitialised"
  /\ gc.team_code_ref_id >= 0 => gc.team_code_ref_found_assigned
  /\ gc.team_code_ref_found_assigned => gc.team_code_ref_id >= 0

\* a tick whose two calls both return the flag from the cache, after a
\* tick with another reference configured in between
C30_Witness ==
  /\ hist.op = "ProcessGPS"
  /\ hist.board.team_code_reference_waypoint = 1
  /\ gc.team_code_ref_id = 1
  /\ Count(hist.log, "team_code_ref_found.read") = 2
  /\ Lookups(hist.log) = 0
  /\ gc.team_code_ref_found_assigned
  /\ ~gc.team_code_ref_found

=============================================================================
